---- MODULE Spec2Model ----
(***************************************************************************)
(* The RAG query cache of the voice agent (src/utils/ragQueryCache.js, in  *)
(* this tree src/unnamed/part_007): a JSON document on disk that maps a    *)
(* query string to cached vector-search results, with a time to live, an   *)
(* LRU size bound and fuzzy (edit distance) lookup.                        *)
(*                                                                         *)
(* Strings are sequences of one-character strings wherever the code looks  *)
(* inside them (normalizeForFuzzy, levenshteinDistance); the keys of the   *)
(* cache are TLA+ strings and Text gives each its characters.              *)
(* Timestamps are milliseconds since the epoch, scaled: one unit of `now`  *)
(* is one clock reading, and several operations may read the same one.     *)
(* Keys are natural-language queries, none of them a canonical array       *)
(* index, so Object.keys/Object.entries enumerate them in insertion order: *)
(* cache.queries is the sequence of its entries in that order.             *)
(***************************************************************************)
EXTENDS Integers, Sequences, FiniteSets, TLC

\* ------------------------------------------------------------- bounds
\* this.maxQueries (10 in the constructor), scaled to the key universe.
maxQueries == 2
\* this.ttlHours * 60 * 60 * 1000 (168 h in the constructor), in clock units.
ttlMs == 1
\* The clock stops at MaxTime; an entry's hitCount is capped at MaxHits.
MaxTime == 2
MaxHits == 1
MaxCalls == 2
\* The longest string handed to levenshteinDistance on its own.
MaxLen == 4

\* this.fuzzyThreshold = 0.8, as a fraction.
fuzzyThreshold == [num |-> 8, den |-> 10]

\* ------------------------------------------------------------- text
UpperToLower ==
  ("A" :> "a") @@ ("B" :> "b") @@ ("C" :> "c") @@ ("D" :> "d") @@ ("E" :> "e") @@
  ("F" :> "f") @@ ("G" :> "g") @@ ("H" :> "h") @@ ("I" :> "i") @@ ("J" :> "j") @@
  ("K" :> "k") @@ ("L" :> "l") @@ ("M" :> "m") @@ ("N" :> "n") @@ ("O" :> "o") @@
  ("P" :> "p") @@ ("Q" :> "q") @@ ("R" :> "r") @@ ("S" :> "s") @@ ("T" :> "t") @@
  ("U" :> "u") @@ ("V" :> "v") @@ ("W" :> "w") @@ ("X" :> "x") @@ ("Y" :> "y") @@
  ("Z" :> "z")

\* \w of the regular expressions: [A-Za-z0-9_].
WordChars ==
  {"a", "b", "c", "d", "e", "f", "g", "h", "i", "j", "k", "l", "m", "n", "o", "p", "q",
   "r", "s", "t", "u", "v", "w", "x", "y", "z",
   "A", "B", "C", "D", "E", "F", "G", "H", "I", "J", "K", "L", "M", "N", "O", "P", "Q",
   "R", "S", "T", "U", "V", "W", "X", "Y", "Z",
   "0", "1", "2", "3", "4", "5", "6", "7", "8", "9", "_"}

\* /\b(what|is|the|do|you|have|tell|me|about|can|we|get|any|some)\b/g
QuestionWords ==
  { <<"w", "h", "a", "t">>, <<"i", "s">>, <<"t", "h", "e">>, <<"d", "o">>,
    <<"y", "o", "u">>, <<"h", "a", "v", "e">>, <<"t", "e", "l", "l">>, <<"m", "e">>,
    <<"a", "b", "o", "u", "t">>, <<"c", "a", "n">>, <<"w", "e">>, <<"g", "e", "t">>,
    <<"a", "n", "y">>, <<"s", "o", "m", "e">> }

\* /\b(availability|available|items?|options?|choice|choices)\b/g
AvailabilityWords ==
  { <<"a", "v", "a", "i", "l", "a", "b", "i", "l", "i", "t", "y">>,
    <<"a", "v", "a", "i", "l", "a", "b", "l", "e">>,
    <<"i", "t", "e", "m">>, <<"i", "t", "e", "m", "s">>,
    <<"o", "p", "t", "i", "o", "n">>, <<"o", "p", "t", "i", "o", "n", "s">>,
    <<"c", "h", "o", "i", "c", "e">>, <<"c", "h", "o", "i", "c", "e", "s">> }

\* /[?!.,;:'"()]/g
Punctuation == {"?", "!", ".", ",", ";", ":", "'", "\"", "(", ")"}

\* \s of the regular expressions, over the characters the queries use.
Whitespace == {" "}

toLowerCase(s) ==
  [i \in 1..Len(s) |-> IF s[i] \in DOMAIN UpperToLower THEN UpperToLower[s[i]] ELSE s[i]]

\* s.replace(/\b(w1|w2|...)\b/g, ''): a match starts and ends at a word
\* boundary, so it is a whole maximal run of word characters; cur is the run
\* being read and out the text already copied.
RECURSIVE ScanWords(_, _, _, _, _)
ScanWords(s, words, i, cur, out) ==
  LET kept == IF cur \in words THEN <<>> ELSE cur
  IN IF i > Len(s) THEN out \o kept
     ELSE IF s[i] \in WordChars
          THEN ScanWords(s, words, i + 1, Append(cur, s[i]), out)
          ELSE ScanWords(s, words, i + 1, <<>>, out \o kept \o <<s[i]>>)

\* Mutant: a normalization that removes no words.
removeNoWords(s, words) == s

removeWords(s, words) == ScanWords(s, words, 1, <<>>, <<>>)

removePunctuation(s) == SelectSeq(s, LAMBDA c : c \notin Punctuation)

\* s.replace(/\s+/g, ' ')
RECURSIVE collapseSpaces(_)
collapseSpaces(s) ==
  IF s = <<>> THEN <<>>
  ELSE IF Head(s) \in Whitespace
       THEN IF Len(s) > 1 /\ s[2] \in Whitespace
            THEN collapseSpaces(Tail(s))
            ELSE <<" ">> \o collapseSpaces(Tail(s))
       ELSE <<Head(s)>> \o collapseSpaces(Tail(s))

RECURSIVE trim(_)
trim(s) ==
  IF s = <<>> THEN <<>>
  ELSE IF Head(s) \in Whitespace THEN trim(Tail(s))
  ELSE IF s[Len(s)] \in Whitespace THEN trim(SubSeq(s, 1, Len(s) - 1))
  ELSE s

normalizeForFuzzy(query) ==
  trim(collapseSpaces(removePunctuation(
    removeWords(removeWords(toLowerCase(query), QuestionWords), AvailabilityWords))))

\* Mutant: a minimum that leaves the substitution out.
Min3NoSubstitution(a, b, c) == IF a <= b THEN a ELSE b

Min3(a, b, c) ==
  IF a <= b /\ a <= c THEN a ELSE IF b <= c THEN b ELSE c

\* One row of the matrix: prev is matrix[i-1] and cur the cells matrix[i][0..j-1]
\* already filled, both as sequences (cell j at index j + 1).
RECURSIVE FillRow(_, _, _, _, _)
FillRow(str1, str2, i, prev, cur) ==
  LET j == Len(cur)
  IN IF j > Len(str2) THEN cur
     ELSE FillRow(str1, str2, i, prev,
            Append(cur,
              IF str1[i] = str2[j]
              THEN prev[j]
              ELSE Min3(prev[j + 1] + 1, cur[j] + 1, prev[j] + 1)))

\* The rows in turn; a row is computed in full (its length read) before the
\* next one is started, as the loop does.
RECURSIVE FillMatrix(_, _, _, _)
FillMatrix(str1, str2, i, prev) ==
  IF i > Len(str1) THEN prev
  ELSE LET row == FillRow(str1, str2, i, prev, <<i>>)
       IN IF Len(row) > 0 THEN FillMatrix(str1, str2, i + 1, row) ELSE row

levenshteinDistance(str1, str2) ==
  FillMatrix(str1, str2, 1, [j \in 1..(Len(str2) + 1) |-> j - 1])[Len(str2) + 1]

Max(a, b) == IF a >= b THEN a ELSE b

\* Fractions stand for the doubles: 1 - distance / maxLen is num / den.
\* Over strings this short two different fractions differ by far more than a
\* rounding error, and 1 - 1/5 rounds to the double 0.8, so the comparisons
\* on fractions agree with the code's on doubles.
calculateSimilarity(str1, str2) ==
  LET normalizedStr1 == normalizeForFuzzy(str1)
      normalizedStr2 == normalizeForFuzzy(str2)
      maxLen == Max(Len(normalizedStr1), Len(normalizedStr2))
  IN IF maxLen = 0 THEN [num |-> 1, den |-> 1]
     ELSE [num |-> maxLen - levenshteinDistance(normalizedStr1, normalizedStr2),
           den |-> maxLen]

\* Mutant: the comparison with the threshold made strict.
FracGEStrict(a, b) == a.num * b.den > b.num * a.den

FracGE(a, b) == a.num * b.den >= b.num * a.den
FracGT(a, b) == a.num * b.den > b.num * a.den

\* ------------------------------------------------------------- inputs
Text ==
  ("kid menu" :> <<"k", "i", "d", " ", "m", "e", "n", "u">>) @@
  ("Kid menu?" :> <<"K", "i", "d", " ", "m", "e", "n", "u", "?">>) @@
  ("kids menus" :> <<"k", "i", "d", "s", " ", "m", "e", "n", "u", "s">>) @@
  ("parking availability" :>
     <<"p", "a", "r", "k", "i", "n", "g", " ",
       "a", "v", "a", "i", "l", "a", "b", "i", "l", "i", "t", "y">>) @@
  ("completely unrelated topic" :>
     <<"c", "o", "m", "p", "l", "e", "t", "e", "l", "y", " ",
       "u", "n", "r", "e", "l", "a", "t", "e", "d", " ", "t", "o", "p", "i", "c">>) @@
  ("kids menu" :> <<"k", "i", "d", "s", " ", "m", "e", "n", "u">>) @@
  ("kid menus" :> <<"k", "i", "d", " ", "m", "e", "n", "u", "s">>) @@
  ("Is parking available?" :>
     <<"I", "s", " ", "p", "a", "r", "k", "i", "n", "g", " ",
       "a", "v", "a", "i", "l", "a", "b", "l", "e", "?">>) @@
  ("" :> <<>>) @@
  ("what is the" :> <<"w", "h", "a", "t", " ", "i", "s", " ", "t", "h", "e">>) @@
  ("dress code" :>
     <<"d", "r", "e", "s", "s", " ", "c", "o", "d", "e">>) @@
  ("gluten free options" :>
     <<"g", "l", "u", "t", "e", "n", " ", "f", "r", "e", "e", " ", "o", "p", "t", "i", "o", "n", "s">>) @@
  ("kid menu options" :>
     <<"k", "i", "d", " ", "m", "e", "n", "u", " ", "o", "p", "t", "i", "o", "n", "s">>) @@
  ("children menu" :>
     <<"c", "h", "i", "l", "d", "r", "e", "n", " ", "m", "e", "n", "u">>) @@
  ("is parking available" :>
     <<"i", "s", " ", "p", "a", "r", "k", "i", "n", "g", " ", "a", "v", "a", "i", "l", "a", "b", "l", "e">>) @@
  ("what is the dress code" :>
     <<"w", "h", "a", "t", " ", "i", "s", " ", "t", "h", "e", " ", "d", "r", "e", "s", "s", " ", "c", "o", "d", "e">>) @@
  ("gluten-free menu" :>
     <<"g", "l", "u", "t", "e", "n", "-", "f", "r", "e", "e", " ", "m", "e", "n", "u">>) @@
  ("vegetarian options" :>
     <<"v", "e", "g", "e", "t", "a", "r", "i", "a", "n", " ", "o", "p", "t", "i", "o", "n", "s">>) @@
  ("completely random query" :>
     <<"c", "o", "m", "p", "l", "e", "t", "e", "l", "y", " ", "r", "a", "n", "d", "o", "m", " ", "q", "u", "e", "r", "y">>)

Queries ==
  {"kid menu", "Kid menu?", "kids menus", "parking availability",
   "completely unrelated topic"}

\* The queries whose results get stored between lookups; the other two are
\* only looked up.
CachedQueries == {"kid menu", "kids menus", "parking availability"}

\* The queries of the calls that overlap.
AsyncQueries == {"kid menu", "parking availability"}

\* Queries of overlapping calls that are one more than the cache holds.
OverlapQueries == {"kid menu", "parking availability", "dress code"}

\* The queries stored, and those looked up and removed, where writes can fail.
FaultQueries == {"kid menu", "kids menus"}
FaultLookups == FaultQueries \cup {"Kid menu?"}

\* The payload is opaque to the cache. Each store passes the results of the
\* vector search just made for its query (ragService.searchFAQ), so two
\* payloads are the same only for one query at one clock reading.
vectorSearch(query, t) == [for |-> query, at |-> t]

\* vectorSearch returns response.documents || []: the documents, or the
\* empty list when there are none.
EmptyList == [for |-> "[]", at |-> 0]
Documents(query, t) == {vectorSearch(query, t), EmptyList}

\* The queries of searchFAQ.
SearchQueries == {"kid menu", "Kid menu?", "parking availability"}

\* The queries stored and looked up where only the matching is of interest.
FuzzyQueries ==
  {"kid menu", "Kid menu?", "kids menu", "kids menus", "kid menus",
   "parking availability", "Is parking available?"}

\* The empty query, a query made of question words only, and a plain one.
EmptyQueries == {"", "what is the", "kid menu"}

\* The fuzzy-matching test: the keys of its mock cache, in the order of the
\* object literal, its test queries, and the key each is commented to match
\* ("" for "should NOT match anything").
MockKeys == <<"kids menu", "parking availability", "dress code", "gluten free options">>

TestQueries ==
  {"kid menu options", "children menu", "is parking available",
   "what is the dress code", "gluten-free menu", "vegetarian options",
   "completely random query"}

ShouldMatch ==
  ("kid menu options" :> "kids menu") @@
  ("children menu" :> "kids menu") @@
  ("is parking available" :> "parking availability") @@
  ("what is the dress code" :> "dress code") @@
  ("gluten-free menu" :> "gluten free options") @@
  ("vegetarian options" :> "") @@
  ("completely random query" :> "")

\* Mock caches: the keys of the test's mock cache, all or some, in any order.
MockCaches ==
  {[queries |-> [i \in DOMAIN f |-> [key |-> MockKeys[f[i]]]]] :
     f \in {g \in UNION {[1..n -> DOMAIN MockKeys] : n \in 0..Len(MockKeys)} :
              \A i, j \in DOMAIN g : i # j => g[i] # g[j]}}

\* The strings whose distance and similarity are measured: all strings up to
\* MaxLen over two letters; "me" is one of the question words.
Alphabet == {"m", "e"}
Strings == UNION {[1..n -> Alphabet] : n \in 0..MaxLen}

\* Reservations. restaurantConfig.maxPartySize is 8;
\* restaurantConfig.maxReservationsPerSlot (20 in the constructor) is scaled.
maxPartySize == 8
maxReservationsPerSlot == 2

\* A Saturday and two of its time slots, within the opening hours; a party
\* that fits and one above maxPartySize.
Dates == {"2025-07-26"}
Times == {"18:00", "19:00"}
PartySizes == {2, 9}
Slots == Dates \X Times
CallSids == {"CA1"}

\* The reservation fields a conversation has gathered; "" and 0 stand for a
\* field that is not there (both are falsy in the tests of the code).
NoData == [date |-> "", time |-> "", partySize |-> 0, name |-> "", phone |-> ""]

\* analysis.extractedData: what the language model extracts from an utterance.
ExtractedData ==
  [date : Dates \cup {""}, time : Times \cup {""}, partySize : PartySizes \cup {0},
   name : {"", "Ann"}, phone : {"", "555-0100"}]

\* analysis.intent, as far as processUserInput tells the values apart.
Intents == {"reservation", "faq"}

\* calculateSimilarity over the query universe, computed once.
Similarity ==
  [a \in DOMAIN Text, b \in DOMAIN Text |-> calculateSimilarity(Text[a], Text[b])]

\* ------------------------------------------------------------- state
VARIABLES
  now,      \* the clock: what Date.now() and new Date() read
  fstat,    \* the cache file: "ENOENT" (not there) or "ok" (a parsable document)
  disk,     \* the document in the cache file, when there is one
  last,     \* the last call of the cache's interface: its arguments, what it
            \* returned (getCachedResults) and the keys it evicted (cacheResults)
  stored,   \* SpecStores, SpecAsync: the queries stored so far, in the order
            \* of the stores
  calls,    \* SpecAsync: for each call in flight, the document it holds in
            \* memory between its readFile and its writeFile
  reservations,   \* SpecBooking: per date and time, the number of rows of the
                  \* reservations table whose status is not 'cancelled'
  conversations,  \* SpecBooking: per callSid, the context of the conversation and
                  \* the availability checks that have answered "available" in it
  lastCreate,     \* SpecBooking: the last call of createReservation
  lastSearch,     \* SpecSearch: the last call of RAGService.searchFAQ
  arg1, arg2,     \* SpecMatch, SpecDistance: the arguments of the function under
  returned        \* test, and what it returned

bookingVars == <<reservations, conversations, lastCreate>>
testVars == <<arg1, arg2, returned>>
otherVars == <<bookingVars, lastSearch, testVars>>
vars == <<now, fstat, disk, last, stored, calls, otherVars>>

\* new Date(x).getTime() of a stored timestamp. cachedAt and expiresAt are
\* always written with toISOString(); lastAccessed is written with
\* toISOString() by cacheResults and as the number Date.now() by a hit, and
\* the Date constructor reads both back to the same millisecond.
ISOString(t) == [fmt |-> "iso", t |-> t]
MsNumber(t) == [fmt |-> "ms", t |-> t]
DateOf(x) == x.t

\* The document loadCache builds when the file does not exist, and the one
\* invalidateCache writes. metadata.createdAt and metadata.lastUpdated are
\* left out: the cache writes them and nothing reads them back.
EmptyCache ==
  [queries |-> <<>>, metadata |-> [maxSize |-> maxQueries, currentSize |-> 0]]

loadCache == IF fstat = "ENOENT" THEN EmptyCache ELSE disk

\* cache.queries[key]: the position of key among the entries, 0 when absent.
IndexOf(queries, key) ==
  IF \E i \in 1..Len(queries) : queries[i].key = key
  THEN CHOOSE i \in 1..Len(queries) : queries[i].key = key
  ELSE 0

Keys(queries) == {queries[i].key : i \in 1..Len(queries)}

\* The entry stored under key in a document (the document holds it).
EntryOf(cache, key) == cache.queries[IndexOf(cache.queries, key)]

\* Mutant: an expiry check that is late by one clock reading.
isExpiredLate(queryData, t) == t > DateOf(queryData.expiresAt) + 1

isExpired(queryData, t) == t > DateOf(queryData.expiresAt)

\* The loop of findFuzzyMatch over Object.keys(cache.queries); bestMatch is
\* <<>> for null and <<[key, similarity]>> otherwise.
RECURSIVE FuzzyScan(_, _, _, _, _)
FuzzyScan(query, queries, i, bestMatch, bestSimilarity) ==
  IF i > Len(queries) THEN bestMatch
  ELSE LET similarity == Similarity[query, queries[i].key]
       IN IF FracGE(similarity, fuzzyThreshold) /\ FracGT(similarity, bestSimilarity)
          THEN FuzzyScan(query, queries, i + 1,
                         <<[key |-> queries[i].key, similarity |-> similarity]>>,
                         similarity)
          ELSE FuzzyScan(query, queries, i + 1, bestMatch, bestSimilarity)

\* Mutant: a scan that takes the first key whatever its similarity.
findFuzzyMatchAnyKey(query, cache) ==
  IF cache.queries = <<>> THEN <<>>
  ELSE <<[key |-> cache.queries[1].key,
          similarity |-> Similarity[query, cache.queries[1].key]]>>

findFuzzyMatch(query, cache) ==
  FuzzyScan(query, cache.queries, 1, <<>>, [num |-> 0, den |-> 1])

Null == [for |-> "", at |-> 0]
Miss == [hit |-> FALSE, kind |-> "miss", key |-> "", value |-> Null]

\* Mutant: a lookup that matches fuzzily first and by the exact key after.
LookupOutcomeFuzzyFirst(cache, cleanedQuery, t) ==
  LET idx == IndexOf(cache.queries, cleanedQuery)
      fuzzyMatch == findFuzzyMatch(cleanedQuery, cache)
      fidx == IF fuzzyMatch = <<>> THEN 0 ELSE IndexOf(cache.queries, fuzzyMatch[1].key)
  IN IF fidx # 0 /\ ~isExpired(cache.queries[fidx], t)
     THEN [hit |-> TRUE, kind |-> "fuzzy", key |-> fuzzyMatch[1].key,
           value |-> cache.queries[fidx].vectorResults]
     ELSE IF idx # 0 /\ ~isExpired(cache.queries[idx], t)
     THEN [hit |-> TRUE, kind |-> "exact", key |-> cleanedQuery,
           value |-> cache.queries[idx].vectorResults]
     ELSE Miss

\* What getCachedResults(cleanedQuery) decides on the loaded cache at time t:
\* the entry it serves (exact, else the best fuzzy match), or a miss.
LookupOutcome(cache, cleanedQuery, t) ==
  LET idx == IndexOf(cache.queries, cleanedQuery)
      fuzzyMatch == findFuzzyMatch(cleanedQuery, cache)
      fidx == IF fuzzyMatch = <<>> THEN 0 ELSE IndexOf(cache.queries, fuzzyMatch[1].key)
  IN IF idx # 0 /\ ~isExpired(cache.queries[idx], t)
     THEN [hit |-> TRUE, kind |-> "exact", key |-> cleanedQuery,
           value |-> cache.queries[idx].vectorResults]
     ELSE IF fidx # 0 /\ ~isExpired(cache.queries[fidx], t)
     THEN [hit |-> TRUE, kind |-> "fuzzy", key |-> fuzzyMatch[1].key,
           value |-> cache.queries[fidx].vectorResults]
     ELSE Miss

\* Mutant: a hit that also renews the entry's time to live.
TouchRenewing(cache, key, t) ==
  LET i == IndexOf(cache.queries, key)
  IN [cache EXCEPT !.queries[i].lastAccessed = MsNumber(t),
                   !.queries[i].hitCount = @ + 1,
                   !.queries[i].expiresAt = ISOString(t + ttlMs)]

\* queryData.lastAccessed = Date.now(); queryData.hitCount = (hitCount || 0) + 1
Touch(cache, key, t) ==
  LET i == IndexOf(cache.queries, key)
  IN [cache EXCEPT !.queries[i].lastAccessed = MsNumber(t),
                   !.queries[i].hitCount = @ + 1]

\* Array.prototype.sort is stable: an entry goes behind those already placed
\* whose lastAccessed is not later than its own.
RECURSIVE InsertSorted(_, _)
\* Mutant: the sort that puts an entry in front of those with an equal lastAccessed.
InsertSortedTiesFirst(sorted, e) ==
  IF sorted = <<>> THEN <<e>>
  ELSE IF DateOf(Head(sorted).lastAccessed) - DateOf(e.lastAccessed) >= 0
       THEN <<e>> \o sorted
       ELSE <<Head(sorted)>> \o InsertSorted(Tail(sorted), e)

\* Mutant: the sort that orders the entries by cachedAt, oldest first.
InsertSortedByCachedAt(sorted, e) ==
  IF sorted = <<>> THEN <<e>>
  ELSE IF DateOf(Head(sorted).cachedAt) - DateOf(e.cachedAt) > 0
       THEN <<e>> \o sorted
       ELSE <<Head(sorted)>> \o InsertSorted(Tail(sorted), e)

InsertSorted(sorted, e) ==
  IF sorted = <<>> THEN <<e>>
  ELSE IF DateOf(Head(sorted).lastAccessed) - DateOf(e.lastAccessed) > 0
       THEN <<e>> \o sorted
       ELSE <<Head(sorted)>> \o InsertSorted(Tail(sorted), e)

RECURSIVE SortByLastAccessed(_, _)
SortByLastAccessed(queries, sorted) ==
  IF queries = <<>> THEN sorted
  ELSE SortByLastAccessed(Tail(queries), InsertSorted(sorted, Head(queries)))

\* Mutant: eviction that stops one entry short of the limit.
enforceMaxSizeOneShort(queries) ==
  LET currentSize == Len(queries)
      sortedQueries == SortByLastAccessed(queries, <<>>)
      toRemove == currentSize - maxQueries - 1
      removed == {sortedQueries[i].key : i \in 1..toRemove}
  IN IF currentSize <= maxQueries THEN queries
     ELSE SelectSeq(queries, LAMBDA e : e.key \notin removed)

enforceMaxSize(queries) ==
  LET currentSize == Len(queries)
      sortedQueries == SortByLastAccessed(queries, <<>>)
      toRemove == currentSize - maxQueries
      removed == {sortedQueries[i].key : i \in 1..toRemove}
  IN IF currentSize <= maxQueries THEN queries
     ELSE SelectSeq(queries, LAMBDA e : e.key \notin removed)

\* Mutant: a store that stamps lastAccessed with the time of expiry.
NewEntryAccessedAtExpiry(cleanedQuery, vectorResults, t) ==
  [key |-> cleanedQuery, vectorResults |-> vectorResults,
   cachedAt |-> ISOString(t), expiresAt |-> ISOString(t + ttlMs),
   lastAccessed |-> ISOString(t + ttlMs), hitCount |-> 0]

NewEntry(cleanedQuery, vectorResults, t) ==
  [key |-> cleanedQuery, vectorResults |-> vectorResults,
   cachedAt |-> ISOString(t), expiresAt |-> ISOString(t + ttlMs),
   lastAccessed |-> ISOString(t), hitCount |-> 0]

\* Mutant: a store that leaves an entry already under the key as it is.
SetQueryKeepOld(queries, entry) ==
  IF IndexOf(queries, entry.key) # 0 THEN queries ELSE Append(queries, entry)

\* cache.queries[cleanedQuery] = {...}: an existing property keeps its place
\* in the enumeration order, a new one goes last.
SetQuery(queries, entry) ==
  LET i == IndexOf(queries, entry.key)
  IN IF i # 0 THEN [queries EXCEPT ![i] = entry] ELSE Append(queries, entry)

\* The document cacheResults hands to saveCache.
\* Mutant: a store that does not enforce the size limit.
CacheAfterStoreUnbounded(cache, cleanedQuery, vectorResults, t) ==
  LET queries == SetQuery(cache.queries, NewEntry(cleanedQuery, vectorResults, t))
  IN [queries |-> queries,
      metadata |-> [cache.metadata EXCEPT !.currentSize = Len(queries)]]

CacheAfterStore(cache, cleanedQuery, vectorResults, t) ==
  LET queries == enforceMaxSize(SetQuery(cache.queries,
                                         NewEntry(cleanedQuery, vectorResults, t)))
  IN [queries |-> queries,
      metadata |-> [cache.metadata EXCEPT !.currentSize = Len(queries)]]

\* Mutant: a removal that also takes the keys within the threshold of the query.
CacheAfterRemoveSimilar(cache, cleanedQuery) ==
  LET queries == SelectSeq(cache.queries,
                   LAMBDA e : ~FracGE(Similarity[cleanedQuery, e.key], fuzzyThreshold))
  IN [queries |-> queries,
      metadata |-> [cache.metadata EXCEPT !.currentSize = Len(queries)]]

CacheAfterRemove(cache, cleanedQuery) ==
  LET queries == SelectSeq(cache.queries, LAMBDA e : e.key # cleanedQuery)
  IN [queries |-> queries,
      metadata |-> [cache.metadata EXCEPT !.currentSize = Len(queries)]]

\* ------------------------------------------------------------- operations
\* What getCacheStatus returns: {success: false, error} from its catch, else
\* the metadata and one record per entry, sorted by hitCount, highest first.
NoStatus == [success |-> FALSE, metadata |-> EmptyCache.metadata, queries |-> <<>>]

RECURSIVE InsertByHitCount(_, _)
InsertByHitCount(sorted, e) ==
  IF sorted = <<>> THEN <<e>>
  ELSE IF e.hitCount - Head(sorted).hitCount > 0
       THEN <<e>> \o sorted
       ELSE <<Head(sorted)>> \o InsertByHitCount(Tail(sorted), e)

RECURSIVE SortByHitCount(_, _)
SortByHitCount(queries, sorted) ==
  IF queries = <<>> THEN sorted
  ELSE SortByHitCount(Tail(queries), InsertByHitCount(sorted, Head(queries)))

\* Mutant: a status that lists the entries in the order of the file.
StatusOfUnsorted(cache) ==
  [success |-> TRUE,
   metadata |-> cache.metadata,
   queries |-> [i \in 1..Len(cache.queries) |->
                  [query |-> cache.queries[i].key,
                   hitCount |-> cache.queries[i].hitCount,
                   cachedAt |-> cache.queries[i].cachedAt,
                   lastAccessed |-> cache.queries[i].lastAccessed]]]

StatusOf(cache) ==
  [success |-> TRUE,
   metadata |-> cache.metadata,
   queries |-> SortByHitCount(
                 [i \in 1..Len(cache.queries) |->
                    [query |-> cache.queries[i].key,
                     hitCount |-> cache.queries[i].hitCount,
                     cachedAt |-> cache.queries[i].cachedAt,
                     lastAccessed |-> cache.queries[i].lastAccessed]], <<>>)]

\* The record of a call: error is the exception its catch block caught
\* ("none" when it ran through); no method lets one escape to the caller.
NoCall ==
  [op |-> "none", query |-> "", value |-> Null, result |-> Miss, evicted |-> {},
   error |-> "none", status |-> NoStatus]

\* Mutant: a loadCache that falls back to the empty cache on every error.
loadCacheRecovers == FALSE

\* Mutant: a loadCache that rethrows ENOENT as well.
loadCacheThrowsOnMissing == fstat \in {"corrupt", "ENOENT"}

\* fs.readFile succeeds and JSON.parse throws: loadCache rethrows every error
\* but ENOENT.
loadCacheThrows == fstat = "corrupt"

\* The calls that can be in flight at once: requests served concurrently.
Calls == 1..MaxCalls
Idle == [pc |-> "idle", op |-> "none", query |-> "", cache |-> EmptyCache]

\* The record of a createReservation call; "none" before the first.
NoCreate ==
  [source |-> "none", callSid |-> "", date |-> "", time |-> "", partySize |-> 0]

\* The record of a searchFAQ call: whether the cache answered, whether the
\* vector search was made and failed, and what was handed to cacheResults.
NoSearch ==
  [query |-> "", at |-> 0, hit |-> FALSE, searched |-> FALSE, failed |-> FALSE,
   storedAs |-> <<>>, searchResults |-> Null]

Init ==
  /\ now = 0
  /\ fstat = "ENOENT"
  /\ disk = EmptyCache
  /\ last = NoCall
  /\ stored = <<>>
  /\ calls = [c \in Calls |-> Idle]
  /\ reservations = [s \in Slots |-> 0]
  /\ conversations = [c \in CallSids |-> [context |-> NoData, confirmed |-> {}]]
  /\ lastCreate = NoCreate
  /\ lastSearch = NoSearch
  /\ arg1 = ""
  /\ arg2 = ""
  /\ returned = <<>>

\* Time passes between calls.
Tick ==
  /\ now < MaxTime
  /\ now' = now + 1
  /\ UNCHANGED <<fstat, disk, last>>

\* Mutant: a lookup that deletes the expired entry it finds under the query,
\* as the cache did before it matched fuzzily.
getCachedResultsReaping(cleanedQuery) ==
  LET cache == loadCache
      outcome == LookupOutcome(cache, cleanedQuery, now)
      idx == IndexOf(cache.queries, cleanedQuery)
  IN /\ last' = [NoCall EXCEPT !.op = "getCachedResults", !.query = cleanedQuery,
                               !.result = outcome]
     /\ IF outcome.hit
        THEN /\ cache.queries[IndexOf(cache.queries, outcome.key)].hitCount < MaxHits
             /\ disk' = Touch(cache, outcome.key, now)
             /\ fstat' = "ok"
        ELSE IF idx # 0
        THEN /\ disk' = CacheAfterRemove(cache, cleanedQuery)
             /\ fstat' = "ok"
        ELSE UNCHANGED <<fstat, disk>>
     /\ UNCHANGED now

getCachedResults(cleanedQuery) ==
  IF loadCacheThrows
  THEN /\ last' = [NoCall EXCEPT !.op = "getCachedResults", !.query = cleanedQuery,
                                 !.error = "SyntaxError"]
       /\ UNCHANGED <<now, fstat, disk>>
  ELSE
  LET cache == loadCache
      outcome == LookupOutcome(cache, cleanedQuery, now)
  IN /\ last' = [NoCall EXCEPT !.op = "getCachedResults", !.query = cleanedQuery,
                               !.result = outcome]
     /\ IF outcome.hit
        THEN /\ cache.queries[IndexOf(cache.queries, outcome.key)].hitCount < MaxHits
             /\ disk' = Touch(cache, outcome.key, now)
             /\ fstat' = "ok"
        ELSE UNCHANGED <<fstat, disk>>
     /\ UNCHANGED now

cacheResults(cleanedQuery, vectorResults) ==
  IF loadCacheThrows
  THEN /\ last' = [NoCall EXCEPT !.op = "cacheResults", !.query = cleanedQuery,
                                 !.value = vectorResults, !.error = "SyntaxError"]
       /\ UNCHANGED <<now, fstat, disk>>
  ELSE
  LET cache == loadCache
  IN /\ disk' = CacheAfterStore(cache, cleanedQuery, vectorResults, now)
     /\ fstat' = "ok"
     /\ last' = [NoCall EXCEPT !.op = "cacheResults", !.query = cleanedQuery,
                               !.value = vectorResults,
                               !.evicted = (Keys(cache.queries) \cup {cleanedQuery})
                                             \ Keys(disk'.queries)]
     /\ UNCHANGED now

\* Mutant: a removal that starts over with an empty cache when the file does
\* not load.
removeQueryRepairing(cleanedQuery) ==
  /\ disk' = IF loadCacheThrows THEN EmptyCache
             ELSE IF IndexOf(loadCache.queries, cleanedQuery) # 0
             THEN CacheAfterRemove(loadCache, cleanedQuery)
             ELSE disk
  /\ fstat' = IF loadCacheThrows \/ IndexOf(loadCache.queries, cleanedQuery) # 0
              THEN "ok" ELSE fstat
  /\ last' = [NoCall EXCEPT !.op = "removeQuery", !.query = cleanedQuery,
                            !.evicted = IF loadCacheThrows THEN {}
                                        ELSE Keys(loadCache.queries) \ Keys(disk'.queries)]
  /\ UNCHANGED now

removeQuery(cleanedQuery) ==
  IF loadCacheThrows
  THEN /\ last' = [NoCall EXCEPT !.op = "removeQuery", !.query = cleanedQuery,
                                 !.error = "SyntaxError"]
       /\ UNCHANGED <<now, fstat, disk>>
  ELSE
  LET cache == loadCache
  IN /\ IF IndexOf(cache.queries, cleanedQuery) # 0
        THEN /\ disk' = CacheAfterRemove(cache, cleanedQuery)
             /\ fstat' = "ok"
        ELSE UNCHANGED <<fstat, disk>>
     /\ last' = [NoCall EXCEPT !.op = "removeQuery", !.query = cleanedQuery,
                               !.evicted = Keys(cache.queries) \ Keys(disk'.queries)]
     /\ UNCHANGED now

\* Mutant: an invalidateCache that loads the file before it clears it, and
\* gives up when the file does not parse.
invalidateCacheAfterLoad ==
  /\ IF loadCacheThrows
     THEN /\ last' = [NoCall EXCEPT !.op = "invalidateCache", !.error = "SyntaxError"]
          /\ UNCHANGED <<fstat, disk>>
     ELSE /\ last' = [NoCall EXCEPT !.op = "invalidateCache"]
          /\ disk' = EmptyCache
          /\ fstat' = "ok"
  /\ UNCHANGED now

invalidateCache ==
  /\ disk' = EmptyCache
  /\ fstat' = "ok"
  /\ last' = [NoCall EXCEPT !.op = "invalidateCache"]
  /\ UNCHANGED now

getCacheStatus ==
  /\ last' = IF loadCacheThrows
             THEN [NoCall EXCEPT !.op = "getCacheStatus", !.error = "SyntaxError"]
             ELSE [NoCall EXCEPT !.op = "getCacheStatus", !.status = StatusOf(loadCache)]
  /\ UNCHANGED <<now, fstat, disk>>

\* The calls the application makes: searchFAQ looks up and stores, the
\* /rag-cache/invalidate route clears. Nothing calls removeQuery.
Next ==
  \/ Tick /\ UNCHANGED <<stored, calls, otherVars>>
  \/ \E q \in Queries : getCachedResults(q) /\ UNCHANGED <<stored, calls, otherVars>>
  \/ \E q \in CachedQueries :
       cacheResults(q, vectorSearch(q, now)) /\ UNCHANGED <<stored, calls, otherVars>>
  \/ invalidateCache /\ UNCHANGED <<stored, calls, otherVars>>

Spec == Init /\ [][Next]_vars

\* Stores of distinct queries into the cache, starting with no cache file,
\* with no lookup in between.
StoreDistinct(q) ==
  /\ \A i \in 1..Len(stored) : stored[i] # q
  /\ cacheResults(q, vectorSearch(q, now))
  /\ stored' = Append(stored, q)
  /\ UNCHANGED <<calls, otherVars>>

NextStores ==
  \/ Tick /\ UNCHANGED <<stored, calls, otherVars>>
  \/ \E q \in Queries : StoreDistinct(q)

SpecStores == Init /\ [][NextStores]_vars

\* Lookups and stores at one clock reading, over queries that are close to
\* one another.
NextFuzzy ==
  \/ \E q \in FuzzyQueries : getCachedResults(q) /\ UNCHANGED <<stored, calls, otherVars>>
  \/ \E q \in FuzzyQueries :
       cacheResults(q, vectorSearch(q, now)) /\ UNCHANGED <<stored, calls, otherVars>>

SpecFuzzy == Init /\ [][NextFuzzy]_vars

\* Lookups and stores with queries that are empty, or empty once normalized.
NextEmpty ==
  \/ Tick /\ UNCHANGED <<stored, calls, otherVars>>
  \/ \E q \in EmptyQueries : getCachedResults(q) /\ UNCHANGED <<stored, calls, otherVars>>
  \/ \E q \in EmptyQueries :
       cacheResults(q, vectorSearch(q, now)) /\ UNCHANGED <<stored, calls, otherVars>>

SpecEmpty == Init /\ [][NextEmpty]_vars

\* ------------------------------------------------------------- searchFAQ
\* Mutant: a test of the cached results that takes an empty list for a miss.
TruthyNotEmpty(cachedResults) == cachedResults # Null /\ cachedResults # EmptyList

\* if (cachedResults): null is falsy, every array is truthy, the empty one too.
Truthy(cachedResults) == cachedResults # Null

\* RAGService.searchFAQ up to the results it goes on with: the lookup, and on
\* a miss the vector search (which throws when failed) and the store of its
\* documents. The catch blocks of the cache turn a file that does not load
\* into a miss and a dropped store.
searchFAQ(query, failed, documents) ==
  LET search == [NoSearch EXCEPT !.query = query, !.at = now]
  IN
  IF loadCacheThrows
  THEN /\ UNCHANGED <<now, fstat, disk>>
       /\ IF failed
          THEN /\ last' = [NoCall EXCEPT !.op = "getCachedResults", !.query = query,
                                         !.error = "SyntaxError"]
               /\ lastSearch' = [search EXCEPT !.searched = TRUE, !.failed = TRUE]
          ELSE /\ last' = [NoCall EXCEPT !.op = "cacheResults", !.query = query,
                                         !.value = documents, !.error = "SyntaxError"]
               /\ lastSearch' = [search EXCEPT !.searched = TRUE,
                                               !.searchResults = documents]
  ELSE
  \E outcome \in {LookupOutcome(loadCache, query, now)} :
  \E looked \in {IF outcome.hit THEN Touch(loadCache, outcome.key, now) ELSE loadCache} :
    LET cachedResults == IF outcome.hit THEN outcome.value ELSE Null
        lookup == [NoCall EXCEPT !.op = "getCachedResults", !.query = query,
                                 !.result = outcome]
    IN /\ outcome.hit => EntryOf(loadCache, outcome.key).hitCount < MaxHits
       /\ UNCHANGED now
       /\ IF Truthy(cachedResults)
          THEN /\ disk' = looked
               /\ fstat' = "ok"
               /\ last' = lookup
               /\ lastSearch' = [search EXCEPT !.hit = TRUE, !.searchResults = cachedResults]
          ELSE IF failed
          THEN /\ IF outcome.hit THEN disk' = looked /\ fstat' = "ok"
                                 ELSE UNCHANGED <<fstat, disk>>
               /\ last' = lookup
               /\ lastSearch' = [search EXCEPT !.searched = TRUE, !.failed = TRUE]
          ELSE /\ disk' = CacheAfterStore(looked, query, documents, now)
               /\ fstat' = "ok"
               /\ last' = [NoCall EXCEPT
                             !.op = "cacheResults", !.query = query, !.value = documents,
                             !.evicted = (Keys(looked.queries) \cup {query})
                                           \ Keys(disk'.queries)]
               /\ lastSearch' = [search EXCEPT !.searched = TRUE, !.storedAs = <<query>>,
                                               !.searchResults = documents]

NextSearch ==
  \/ Tick /\ UNCHANGED <<stored, calls, otherVars>>
  \/ \E q \in SearchQueries, failed \in BOOLEAN :
       \E documents \in Documents(q, now) :
         searchFAQ(q, failed, documents)
           /\ UNCHANGED <<stored, calls, bookingVars, testVars>>
  \/ invalidateCache /\ UNCHANGED <<stored, calls, otherVars>>

SpecSearch == Init /\ [][NextSearch]_vars

\* ------------------------------------------------------------- tests
\* test-fuzzy-matching: testCache.findFuzzyMatch(query, mockCache).
InitMatch ==
  /\ now = 0
  /\ fstat = "ok"
  /\ disk \in MockCaches
  /\ last = NoCall
  /\ stored = <<>>
  /\ calls = [c \in Calls |-> Idle]
  /\ reservations = [s \in Slots |-> 0]
  /\ conversations = [c \in CallSids |-> [context |-> NoData, confirmed |-> {}]]
  /\ lastCreate = NoCreate
  /\ lastSearch = NoSearch
  /\ arg1 = ""
  /\ arg2 = ""
  /\ returned = <<>>

TestFuzzyMatch(query) ==
  /\ arg1' = query
  /\ returned' = findFuzzyMatch(query, disk)
  /\ UNCHANGED <<now, fstat, disk, last, stored, calls, bookingVars, lastSearch, arg2>>

NextMatch == \E query \in TestQueries : TestFuzzyMatch(query)

SpecMatch == InitMatch /\ [][NextMatch]_vars

\* levenshteinDistance and calculateSimilarity, each way round, on a pair of
\* strings.
InitDistance ==
  /\ now = 0
  /\ fstat = "ENOENT"
  /\ disk = EmptyCache
  /\ last = NoCall
  /\ stored = <<>>
  /\ calls = [c \in Calls |-> Idle]
  /\ reservations = [s \in Slots |-> 0]
  /\ conversations = [c \in CallSids |-> [context |-> NoData, confirmed |-> {}]]
  /\ lastCreate = NoCreate
  /\ lastSearch = NoSearch
  /\ arg1 \in Strings
  /\ arg2 \in Strings
  /\ returned = <<>>

Measure ==
  /\ returned = <<>>
  /\ returned' = [distance |-> levenshteinDistance(arg1, arg2),
                  similarity |-> calculateSimilarity(arg1, arg2),
                  reversed |-> calculateSimilarity(arg2, arg1)]
  /\ UNCHANGED <<now, fstat, disk, last, stored, calls, bookingVars, lastSearch,
                 arg1, arg2>>

NextDistance == Measure

SpecDistance == InitDistance /\ [][NextDistance]_vars

\* ------------------------------------------------------------- reservations
\* { ...conversation.context, ...analysis.extractedData }
MergeContext(context, extractedData) ==
  [f \in DOMAIN NoData |->
     IF extractedData[f] # NoData[f] THEN extractedData[f] ELSE context[f]]

hasBasicReservationInfo(data) ==
  data.date # "" /\ data.time # "" /\ data.partySize # 0

isReservationComplete(data) ==
  /\ data.date # "" /\ data.time # "" /\ data.partySize # 0
  /\ data.name # "" /\ data.phone # ""

\* ReservationManager.checkAvailability for a date and time within the
\* opening hours: the party size test, then the count of the slot's
\* reservations against maxReservationsPerSlot.
checkAvailability(date, time, partySize) ==
  /\ partySize <= maxPartySize
  /\ reservations[<<date, time>>] < maxReservationsPerSlot

\* ReservationManager.createReservation: counts the slot's reservations for
\* the table id and inserts the row. The model stops counting one above the
\* limit.
createReservation(data, source, callSid) ==
  /\ reservations[<<data.date, data.time>>] <= maxReservationsPerSlot
  /\ reservations' = [reservations EXCEPT ![<<data.date, data.time>>] = @ + 1]
  /\ lastCreate' = [source |-> source, callSid |-> callSid, date |-> data.date,
                    time |-> data.time, partySize |-> data.partySize]

\* VoiceProcessor.processUserInput for one utterance of a call: analyzeIntent
\* merges the extracted data into the context; with the reservation intent,
\* date, time and party size without name and phone lead to an availability
\* check, all five fields to handleReservationBooking and, after it, to
\* resetConversationContext.
processUserInput(callSid, intent, extractedData) ==
  LET conversation == conversations[callSid]
      fullReservationData == MergeContext(conversation.context, extractedData)
      hasBasicInfo == hasBasicReservationInfo(fullReservationData)
      isComplete == isReservationComplete(fullReservationData)
      checked == <<fullReservationData.date, fullReservationData.time,
                   fullReservationData.partySize>>
  IN IF intent = "reservation" /\ hasBasicInfo /\ ~isComplete
     THEN /\ conversations' =
               [conversations EXCEPT ![callSid] =
                  [context |-> fullReservationData,
                   confirmed |->
                     IF checkAvailability(fullReservationData.date,
                                          fullReservationData.time,
                                          fullReservationData.partySize)
                     THEN conversation.confirmed \cup {checked}
                     ELSE conversation.confirmed]]
          /\ UNCHANGED <<reservations, lastCreate>>
     ELSE IF intent = "reservation" /\ isComplete
     THEN /\ createReservation(fullReservationData, "voice_call", callSid)
          /\ conversations' = [conversations EXCEPT ![callSid].context = NoData]
     ELSE /\ conversations' =
               [conversations EXCEPT ![callSid].context = fullReservationData]
          /\ UNCHANGED <<reservations, lastCreate>>

\* POST /create of the reservations API: the required fields are there and
\* createReservation is called.
createRoute(date, time, partySize) ==
  /\ createReservation([date |-> date, time |-> time, partySize |-> partySize],
                       "api", "")
  /\ UNCHANGED conversations

NextBooking ==
  \/ \E c \in CallSids, i \in Intents, e \in ExtractedData :
       processUserInput(c, i, e) /\ UNCHANGED <<now, fstat, disk, last, stored, calls, lastSearch, testVars>>
  \/ \E d \in Dates, t \in Times, n \in PartySizes :
       createRoute(d, t, n) /\ UNCHANGED <<now, fstat, disk, last, stored, calls, lastSearch, testVars>>

SpecBooking == Init /\ [][NextBooking]_vars

\* saveCache throws. fs.mkdir or the open of the file failed and the file is
\* as it was, or fs.writeFile failed after it had truncated the file (it
\* writes in place), and what is left does not parse; disk then holds no
\* document and is kept at the empty one.
saveCacheThrows ==
  \/ UNCHANGED <<fstat, disk>>
  \/ /\ fstat' = "corrupt"
     /\ disk' = EmptyCache

\* A lookup that finds a live entry and cannot write it back: the catch
\* block returns null.
getCachedResultsSaveFails(cleanedQuery) ==
  /\ ~loadCacheThrows
  /\ LookupOutcome(loadCache, cleanedQuery, now).hit
  /\ last' = [NoCall EXCEPT !.op = "getCachedResults", !.query = cleanedQuery,
                            !.error = "write"]
  /\ saveCacheThrows
  /\ UNCHANGED now

cacheResultsSaveFails(cleanedQuery, vectorResults) ==
  /\ ~loadCacheThrows
  /\ last' = [NoCall EXCEPT !.op = "cacheResults", !.query = cleanedQuery,
                            !.value = vectorResults, !.error = "write"]
  /\ saveCacheThrows
  /\ UNCHANGED now

removeQuerySaveFails(cleanedQuery) ==
  /\ ~loadCacheThrows
  /\ IndexOf(loadCache.queries, cleanedQuery) # 0
  /\ last' = [NoCall EXCEPT !.op = "removeQuery", !.query = cleanedQuery,
                            !.error = "write"]
  /\ saveCacheThrows
  /\ UNCHANGED now

\* invalidateCache returns {success: false, error}.
invalidateCacheSaveFails ==
  /\ last' = [NoCall EXCEPT !.op = "invalidateCache", !.error = "write"]
  /\ saveCacheThrows
  /\ UNCHANGED now

\* Every method of the class, with writes that can fail.
NextFaults ==
  \/ Tick /\ UNCHANGED <<stored, calls, otherVars>>
  \/ \E q \in FaultLookups : getCachedResults(q) /\ UNCHANGED <<stored, calls, otherVars>>
  \/ \E q \in FaultQueries :
       cacheResults(q, vectorSearch(q, now)) /\ UNCHANGED <<stored, calls, otherVars>>
  \/ \E q \in FaultLookups : removeQuery(q) /\ UNCHANGED <<stored, calls, otherVars>>
  \/ invalidateCache /\ UNCHANGED <<stored, calls, otherVars>>
  \/ getCacheStatus /\ UNCHANGED <<stored, calls, otherVars>>
  \/ \E q \in FaultLookups : getCachedResultsSaveFails(q) /\ UNCHANGED <<stored, calls, otherVars>>
  \/ \E q \in FaultQueries :
       cacheResultsSaveFails(q, vectorSearch(q, now)) /\ UNCHANGED <<stored, calls, otherVars>>
  \/ \E q \in FaultLookups : removeQuerySaveFails(q) /\ UNCHANGED <<stored, calls, otherVars>>
  \/ invalidateCacheSaveFails /\ UNCHANGED <<stored, calls, otherVars>>

SpecFaults == Init /\ [][NextFaults]_vars

\* Calls that overlap. A call runs without interruption from the completion
\* of its readFile to its next await, which is in saveCache (fs.mkdir, then
\* fs.writeFile); other calls' reads and writes can fall between the two.
\* Nothing in the class serialises the calls.

\* getCachedResults from loadCache up to its await of saveCache. A miss
\* returns without one.
lookupLoaded(c, cleanedQuery) ==
  LET cache == loadCache
      outcome == LookupOutcome(cache, cleanedQuery, now)
  IN /\ calls[c].pc = "idle"
     /\ IF outcome.hit
        THEN /\ EntryOf(cache, outcome.key).hitCount < MaxHits
             /\ calls' = [calls EXCEPT ![c] =
                            [pc |-> "saveCache", op |-> "getCachedResults",
                             query |-> cleanedQuery,
                             cache |-> Touch(cache, outcome.key, now)]]
        ELSE UNCHANGED calls
     /\ UNCHANGED <<now, fstat, disk, last, stored, otherVars>>

\* cacheResults from loadCache up to its await of saveCache.
storeLoaded(c, cleanedQuery, vectorResults) ==
  /\ calls[c].pc = "idle"
  /\ calls' = [calls EXCEPT ![c] =
                 [pc |-> "saveCache", op |-> "cacheResults", query |-> cleanedQuery,
                  cache |-> CacheAfterStore(loadCache, cleanedQuery, vectorResults, now)]]
  /\ UNCHANGED <<now, fstat, disk, last, stored, otherVars>>

\* invalidateCache up to its await of saveCache; it loads nothing.
invalidateStarted(c) ==
  /\ calls[c].pc = "idle"
  /\ calls' = [calls EXCEPT ![c] =
                 [pc |-> "saveCache", op |-> "invalidateCache", query |-> "",
                  cache |-> EmptyCache]]
  /\ UNCHANGED <<now, fstat, disk, last, stored, otherVars>>

\* fs.writeFile of the document the call holds, and the call returns.
saveCache(c) ==
  /\ calls[c].pc = "saveCache"
  /\ disk' = calls[c].cache
  /\ fstat' = "ok"
  /\ calls' = [calls EXCEPT ![c] = Idle]
  /\ stored' = CASE calls[c].op = "invalidateCache" -> <<>>
                  [] /\ calls[c].op = "cacheResults"
                     /\ \A i \in 1..Len(stored) : stored[i] # calls[c].query
                       -> Append(stored, calls[c].query)
                  [] OTHER -> stored
  /\ UNCHANGED <<now, last, otherVars>>

NextAsync ==
  \/ \E c \in Calls, q \in AsyncQueries : lookupLoaded(c, q)
  \/ \E c \in Calls, q \in AsyncQueries : storeLoaded(c, q, vectorSearch(q, now))
  \/ \E c \in Calls : invalidateStarted(c)
  \/ \E c \in Calls : saveCache(c)

SpecAsync == Init /\ [][NextAsync]_vars

\* Overlapping lookups and stores of more queries than the cache holds: one
\* request looks up while the others store.
NextOverlap ==
  \/ lookupLoaded(1, "kid menu")
  \/ \E c \in Calls \ {1}, q \in OverlapQueries : storeLoaded(c, q, vectorSearch(q, now))
  \/ \E c \in Calls : saveCache(c)

SpecOverlap == Init /\ [][NextOverlap]_vars

\* ------------------------------------------------------------- properties
ExactHit(key, value) == [hit |-> TRUE, kind |-> "exact", key |-> key, value |-> value]

\* C1: a lookup of q that directly follows store(q, v), before the entry's time
\* to live has passed, returns an exact hit on q carrying v, also when the
\* store went into a full cache and had to evict.
C1_StoreThenLookupHits ==
  [][(/\ last.op = "cacheResults"
      /\ last'.op = "getCachedResults"
      /\ last'.query = last.query
      /\ now' <= last.value.at + ttlMs)
     => last'.result = ExactHit(last.query, last.value)]_vars

\* A lookup served the entry that a store had just written into a full cache,
\* evicting another one.
C1_Witness ==
  /\ last.op = "getCachedResults"
  /\ last.result.kind = "exact"
  /\ Len(disk.queries) = maxQueries
  /\ EntryOf(disk, last.query).hitCount = 1
  /\ DateOf(EntryOf(disk, last.query).cachedAt) = now
  /\ IndexOf(disk.queries, last.query) = maxQueries
  /\ \A i \in 1..(maxQueries - 1) :
       /\ DateOf(disk.queries[i].lastAccessed) = now
       /\ DateOf(disk.queries[i].cachedAt) < now

\* C2: no lookup, exact or fuzzy, returns an entry whose expiresAt has passed,
\* and no entry was ever served after it; an entry is served under its own key
\* up to cachedAt + ttl and by no lookup after that.
C2_NoExpiredSurfaced ==
  LET cache == loadCache
  IN /\ \A q \in Queries :
          LET r == LookupOutcome(cache, q, now)
          IN r.hit => /\ r.key \in Keys(cache.queries)
                      /\ now <= DateOf(EntryOf(cache, r.key).expiresAt)
                      /\ r.value = EntryOf(cache, r.key).vectorResults
     /\ \A i \in 1..Len(cache.queries) :
          LET e == cache.queries[i]
          IN /\ e.hitCount > 0 => DateOf(e.lastAccessed) <= DateOf(e.cachedAt) + ttlMs
             /\ now <= DateOf(e.cachedAt) + ttlMs
                  => LookupOutcome(cache, e.key, now) = ExactHit(e.key, e.vectorResults)
             /\ now > DateOf(e.cachedAt) + ttlMs
                  => \A q \in Queries : LookupOutcome(cache, q, now).key # e.key

\* A lookup missed although an expired entry, still in the file, is close
\* enough to the query to be a fuzzy candidate.
C2_Witness ==
  /\ last.op = "getCachedResults"
  /\ ~last.result.hit
  /\ \E i \in 1..Len(disk.queries) :
       /\ now > DateOf(disk.queries[i].expiresAt)
       /\ disk.queries[i].key # last.query
       /\ FracGE(Similarity[last.query, disk.queries[i].key], fuzzyThreshold)

\* The entries of a document that the store of q does not keep.
EvictedBy(cache, after) ==
  {i \in 1..Len(cache.queries) : cache.queries[i].key \notin Keys(after.queries)}

\* C3: every store leaves a document of at most maxQueries entries that holds
\* the stored key (the write is not rejected); it evicts no more entries than
\* the bound needs, and each evicted entry's lastAccessed is no later than
\* that of every entry it keeps.
C3_StoreKeepsBound ==
  [][LET q == last'.query
     IN (q \in Queries /\ cacheResults(q, vectorSearch(q, now))) =>
         LET cache == loadCache
             grown == Len(cache.queries) + (IF q \in Keys(cache.queries) THEN 0 ELSE 1)
         IN /\ fstat' = "ok"
            /\ Len(disk'.queries) <= maxQueries
            /\ disk'.metadata.currentSize = Len(disk'.queries)
            /\ q \in Keys(disk'.queries)
            /\ Len(disk'.queries) = IF grown <= maxQueries THEN grown ELSE maxQueries
            /\ \A i \in EvictedBy(cache, disk') : \A j \in 1..Len(disk'.queries) :
                 DateOf(cache.queries[i].lastAccessed)
                   <= DateOf(disk'.queries[j].lastAccessed)
            \* a document that is two entries over the limit (one written
            \* under a larger maxQueries) is cut down to it as well
            /\ \A q2 \in Queries :
                 LET over == SetQuery(SetQuery(cache.queries, NewEntry(q2, Null, now)),
                                      NewEntry(q, Null, now))
                     kept == enforceMaxSize(over)
                 IN Len(over) = maxQueries + 2 =>
                      /\ Len(kept) = maxQueries
                      /\ \A i \in 1..Len(over) : \A j \in 1..Len(kept) :
                           over[i].key \notin Keys(kept)
                             => DateOf(over[i].lastAccessed) <= DateOf(kept[j].lastAccessed)]_vars

\* A store into a full cache has evicted an entry.
C3_Witness ==
  /\ last.op = "cacheResults"
  /\ last.evicted # {}
  /\ Len(disk.queries) = maxQueries
  /\ last.query \in Keys(disk.queries)

\* C4: starting with no cache, after stores of more than maxQueries distinct
\* queries and no lookup, exactly maxQueries entries remain and they are the
\* maxQueries most recently stored; up to maxQueries stores, all remain.
C4_KeepsMostRecentStores ==
  LET n == Len(stored)
      recent == {stored[i] : i \in (IF n > maxQueries THEN n - maxQueries + 1 ELSE 1)..n}
  IN /\ Keys(loadCache.queries) = recent
     /\ n > maxQueries => Len(disk.queries) = maxQueries

\* Two more distinct queries than the cache holds have been stored.
C4_Witness ==
  /\ Len(stored) = maxQueries + 2
  /\ last.op = "cacheResults"
  /\ last.evicted # {}

\* The stored keys that have not expired and are close enough to q.
LiveCandidates(cache, q, t) ==
  {i \in 1..Len(cache.queries) :
     /\ ~(t > DateOf(cache.queries[i].expiresAt))
     /\ FracGE(Similarity[q, cache.queries[i].key], fuzzyThreshold)}

\* C5: when q is not exactly a live key and some live key is within the
\* threshold of q, the lookup hits a live key of the highest similarity among
\* the live keys, whatever expired entries the file still holds.
C5_FuzzyConsidersEveryLiveKey ==
  LET cache == loadCache
  IN \A q \in Queries :
       LET r == LookupOutcome(cache, q, now)
           live == LiveCandidates(cache, q, now)
       IN (r.kind # "exact" /\ live # {})
            => /\ r.hit
               /\ \E i \in live :
                    /\ cache.queries[i].key = r.key
                    /\ cache.queries[i].vectorResults = r.value
                    /\ \A j \in live : FracGE(Similarity[q, cache.queries[i].key],
                                               Similarity[q, cache.queries[j].key])

\* C6: a lookup hits only a key that has not expired and that is the query
\* itself or within the threshold of it; with no such key it misses, as
\* "completely unrelated topic" does on a cache that holds only
\* "parking availability".
C6_NoHitBelowThreshold ==
  LET cache == loadCache
  IN /\ Keys(cache.queries) = {"parking availability"}
          => LookupOutcome(cache, "completely unrelated topic", now) = Miss
     /\ \A q \in Queries :
          LET r == LookupOutcome(cache, q, now)
              exact == \E i \in 1..Len(cache.queries) :
                         /\ cache.queries[i].key = q
                         /\ now <= DateOf(cache.queries[i].expiresAt)
          IN /\ r.hit => /\ r.key \in Keys(cache.queries)
                         /\ now <= DateOf(EntryOf(cache, r.key).expiresAt)
                         /\ r.key = q \/ FracGE(Similarity[q, r.key], fuzzyThreshold)
             /\ (~exact /\ LiveCandidates(cache, q, now) = {}) => r = Miss
             /\ (last.op = "getCachedResults" /\ last.query = q /\ last.result.hit)
                  => last.result.key = q
                       \/ FracGE(Similarity[q, last.result.key], fuzzyThreshold)

\* A lookup missed on a cache that holds only live keys, none of them within
\* the threshold of the query.
C6_Witness ==
  /\ last.op = "getCachedResults"
  /\ last.query = "completely unrelated topic"
  /\ last.result = Miss
  /\ Keys(disk.queries) = {"parking availability"}
  /\ \A i \in 1..Len(disk.queries) :
       /\ now <= DateOf(disk.queries[i].expiresAt)
       /\ ~FracGE(Similarity[last.query, disk.queries[i].key], fuzzyThreshold)

\* C7: a hit, exact or fuzzy, raises the matched entry's hitCount by one,
\* sets its lastAccessed to the current time and writes that to the file;
\* the keys and their order, every other entry, the metadata and the matched
\* entry's value, cachedAt and expiresAt stay as they were.
C7_HitTouchesOnlyMatched ==
  [][LET q == last'.query
     IN (q \in Queries /\ getCachedResults(q) /\ last'.result.hit) =>
         LET cache == loadCache
             i == IndexOf(cache.queries, last'.result.key)
             old == cache.queries[i]
             new == disk'.queries[i]
         IN /\ i # 0
            /\ fstat' = "ok"
            /\ Len(disk'.queries) = Len(cache.queries)
            /\ disk'.metadata = cache.metadata
            /\ \A j \in 1..Len(cache.queries) : j # i => disk'.queries[j] = cache.queries[j]
            /\ new.key = old.key
            /\ new.hitCount = old.hitCount + 1
            /\ DateOf(new.lastAccessed) = now
            /\ new.vectorResults = old.vectorResults
            /\ new.cachedAt = old.cachedAt
            /\ new.expiresAt = old.expiresAt]_vars

\* A fuzzy hit, made after the matched entry was stored, has been written
\* back to a file that holds another entry as well.
C7_Witness ==
  /\ last.op = "getCachedResults"
  /\ last.result.kind = "fuzzy"
  /\ Len(disk.queries) = 2
  /\ EntryOf(disk, last.result.key).hitCount = 1
  /\ EntryOf(disk, last.result.key).lastAccessed = MsNumber(now)
  /\ DateOf(EntryOf(disk, last.result.key).cachedAt) < now

\* C8: a lookup that misses writes nothing: the file, and whether it exists,
\* are after the call what they were before it, also when the query's own
\* entry is in the file and has expired.
C8_MissWritesNothing ==
  [][LET q == last'.query
     IN (q \in Queries /\ getCachedResults(q) /\ ~last'.result.hit) => (disk' = disk /\ fstat' = fstat)]_vars

\* A lookup missed on the expired entry stored under the query itself, and
\* the entry is still in the file.
C8_Witness ==
  /\ last.op = "getCachedResults"
  /\ last.result = Miss
  /\ last.query \in Keys(disk.queries)
  /\ now > DateOf(EntryOf(disk, last.query).expiresAt)

\* C9: a store of v under q leaves under q exactly one entry, with value v,
\* cachedAt, lastAccessed = now, expiresAt = now + ttl and hitCount 0; when q
\* was a key already, expired or not, the keys and their number are the same
\* as before.
C9_StoreWritesFreshEntry ==
  [][LET q == last'.query
     IN (q \in Queries /\ cacheResults(q, vectorSearch(q, now))) =>
         LET cache == loadCache
             under == {i \in 1..Len(disk'.queries) : disk'.queries[i].key = q}
         IN /\ Cardinality(under) = 1
            /\ EntryOf(disk', q) =
                 [key |-> q, vectorResults |-> vectorSearch(q, now),
                  cachedAt |-> ISOString(now), expiresAt |-> ISOString(now + ttlMs),
                  lastAccessed |-> ISOString(now), hitCount |-> 0]
            /\ q \in Keys(cache.queries)
                 => /\ Len(disk'.queries) = Len(cache.queries)
                    /\ Keys(disk'.queries) = Keys(cache.queries)
                    /\ IndexOf(disk'.queries, q) = IndexOf(cache.queries, q)]_vars

\* A store has overwritten an entry: the stored key is ahead of an entry
\* that was cached before this store, where a new key would have gone last.
C9_Witness ==
  /\ last.op = "cacheResults"
  /\ Len(disk.queries) = 2
  /\ disk.queries[1].key = last.query
  /\ disk.queries[1].cachedAt = ISOString(now)
  /\ DateOf(disk.queries[2].cachedAt) < now
  /\ disk.queries[1].hitCount = 0

\* C10: no update is lost when calls overlap: once every call has returned,
\* each key stored since the cache was last cleared is in the file, as long as
\* no more than maxQueries distinct keys were stored.
C10_NoUpdateLost ==
  (/\ \A c \in Calls : calls[c].pc = "idle"
   /\ Len(stored) <= maxQueries)
    => \A i \in 1..Len(stored) : stored[i] \in Keys(loadCache.queries)

\* C11: when the file exists and does not parse, a lookup returns the miss,
\* a store writes nothing, the status is {success: false}; each of them
\* catches the error itself, and lookup and store leave the file as it is.
C11_CorruptStoreDegrades ==
  [][fstat = "corrupt" =>
       LET q == last'.query
       IN /\ (q \in FaultLookups /\ getCachedResults(q))
               => /\ last'.result = Miss
                  /\ last'.error = "SyntaxError"
                  /\ UNCHANGED <<fstat, disk>>
          /\ (q \in FaultQueries /\ cacheResults(q, vectorSearch(q, now)))
               => /\ last'.error = "SyntaxError"
                  /\ UNCHANGED <<fstat, disk>>
          /\ getCacheStatus
               => /\ ~last'.status.success
                  /\ last'.error = "SyntaxError"
                  /\ UNCHANGED <<fstat, disk>>]_vars

\* A store has found a file that does not parse.
C11_Witness ==
  /\ last.op = "cacheResults"
  /\ last.error = "SyntaxError"
  /\ fstat = "corrupt"

\* C12: a lookup or a store whose write fails returns normally (the lookup
\* with the miss) and leaves the file exactly as the last successful write
\* left it.
C12_FailedWriteKeepsLastGood ==
  [][LET q == last'.query
     IN /\ (q \in FaultLookups /\ getCachedResultsSaveFails(q))
             => /\ last'.result = Miss
                /\ UNCHANGED <<fstat, disk>>
        /\ (q \in FaultQueries /\ cacheResultsSaveFails(q, vectorSearch(q, now)))
             => UNCHANGED <<fstat, disk>>]_vars

\* C13: while there is no cache file, a lookup returns the miss and creates
\* no file, the status succeeds and reports no entries, and a store succeeds
\* and leaves a file that holds the stored entry and nothing else; none of
\* them ends in a catch block.
C13_MissingStoreIsEmpty ==
  [][fstat = "ENOENT" =>
       LET q == last'.query
       IN /\ (q \in FaultLookups /\ getCachedResults(q))
               => /\ last'.result = Miss
                  /\ last'.error = "none"
                  /\ UNCHANGED <<fstat, disk>>
          /\ getCacheStatus
               => /\ last'.error = "none"
                  /\ last'.status.success
                  /\ last'.status.metadata.currentSize = 0
                  /\ last'.status.queries = <<>>
          /\ (q \in FaultQueries /\ cacheResults(q, vectorSearch(q, now)))
               => /\ last'.error = "none"
                  /\ fstat' = "ok"
                  /\ disk'.queries = <<NewEntry(q, vectorSearch(q, now), now)>>
                  /\ disk'.metadata.currentSize = 1]_vars

\* The status has been asked for, and given, with no cache file.
C13_Witness ==
  /\ last.op = "getCacheStatus"
  /\ last.status.success
  /\ fstat = "ENOENT"

\* The file holds no entry: there is none, or it does not parse, or its
\* document is empty.
NoEntries == fstat \in {"ENOENT", "corrupt"} \/ Len(disk.queries) = 0

\* C14: invalidateCache, whatever the file was (populated, missing,
\* unparsable), leaves a file that parses and holds no entry, with
\* currentSize 0; from then on, until a store succeeds, the file holds no
\* entry and every lookup returns the miss.
C14_InvalidateEmpties ==
  [][/\ (last'.op = "invalidateCache" /\ invalidateCache)
          => /\ fstat' = "ok"
             /\ disk'.queries = <<>>
             /\ disk'.metadata.currentSize = 0
             /\ \A q \in FaultLookups : LookupOutcome(disk', q, now') = Miss
     /\ NoEntries
          => /\ (last'.op = "getCachedResults" /\ last' # last) => last'.result = Miss
             /\ ~(\E q \in FaultQueries : cacheResults(q, vectorSearch(q, now)))
                  => NoEntries']_vars

\* invalidateCache has written the empty document, some time after start.
C14_Witness ==
  /\ last.op = "invalidateCache"
  /\ last.error = "none"
  /\ fstat = "ok"
  /\ disk = EmptyCache
  /\ now > 0

\* C15: removeQuery(q) on a file that parses: when q is, to the letter, a
\* key, that entry goes and every other entry, and their order, stay as they
\* were; when it is not, nothing is written.
C15_RemoveTakesOnlyTheKey ==
  [][LET q == last'.query
         cache == loadCache
     IN (q \in FaultLookups /\ ~loadCacheThrows /\ removeQuery(q)) =>
          IF q \in Keys(cache.queries)
          THEN /\ fstat' = "ok"
               /\ Keys(disk'.queries) = Keys(cache.queries) \ {q}
               /\ Len(disk'.queries) = Len(cache.queries) - 1
               /\ disk'.metadata.currentSize = Len(disk'.queries)
               /\ \A k \in Keys(disk'.queries) : EntryOf(disk', k) = EntryOf(cache, k)
               /\ \A k1, k2 \in Keys(disk'.queries) :
                    IndexOf(disk'.queries, k1) < IndexOf(disk'.queries, k2)
                      <=> IndexOf(cache.queries, k1) < IndexOf(cache.queries, k2)
          ELSE UNCHANGED <<fstat, disk>>]_vars

\* An entry has been removed from under its key and the entry of a key
\* within the threshold of it is still there.
C15_Witness ==
  /\ last.op = "removeQuery"
  /\ last.evicted = {last.query}
  /\ Len(disk.queries) = 1
  /\ FracGE(Similarity[last.query, disk.queries[1].key], fuzzyThreshold)

\* The entries of a document that have not expired at time t.
LiveEntries(cache, t) ==
  {i \in 1..Len(cache.queries) : ~(t > DateOf(cache.queries[i].expiresAt))}

\* C16: expired entries do not take up room: a store into a cache that holds
\* fewer than maxQueries entries that have not expired evicts none of those.
C16_ExpiredGoFirst ==
  [][LET q == last'.query
         cache == loadCache
     IN (/\ q \in Queries
         /\ cacheResults(q, vectorSearch(q, now))
         /\ Cardinality(LiveEntries(cache, now)) < maxQueries)
          => \A i \in LiveEntries(cache, now) :
               cache.queries[i].key \in Keys(disk'.queries)]_vars

\* C17: over lookups, stores and the passing of time, no entry's lastAccessed
\* is later than the clock, and the lastAccessed under a key that stays in
\* the file never goes back.
C17_LastAccessedMonotone ==
  [][/\ \A i \in 1..Len(disk'.queries) : DateOf(disk'.queries[i].lastAccessed) <= now'
     /\ \A k \in Keys(disk.queries) \cap Keys(disk'.queries) :
          DateOf(EntryOf(disk', k).lastAccessed) >= DateOf(EntryOf(disk, k).lastAccessed)]_vars

\* A store has overwritten the first entry, next to an entry that a lookup
\* hit one tick earlier.
C17_Witness ==
  /\ last.op = "cacheResults"
  /\ Len(disk.queries) = 2
  /\ disk.queries[1].key = last.query
  /\ disk.queries[1].lastAccessed = ISOString(now)
  /\ disk.queries[2].lastAccessed = MsNumber(now - 1)

\* A similarity equal to, and one below, the threshold.
AtThreshold(similarity) ==
  similarity.num * fuzzyThreshold.den = fuzzyThreshold.num * similarity.den

BelowThreshold(similarity) ==
  similarity.num * fuzzyThreshold.den < fuzzyThreshold.num * similarity.den

\* C18: a lookup whose query is not a key hits when some key's similarity
\* to it equals the threshold, and misses when every key's is below it. The
\* normalized forms "kids menu" and "kid menu" are one edit apart over nine
\* characters, and "kids menu" hits a cache that holds only "kid menu".
C18_ThresholdInclusive ==
  LET cache == loadCache
      keys == Keys(cache.queries)
  IN /\ normalizeForFuzzy(Text["kids menu"]) = Text["kids menu"]
     /\ normalizeForFuzzy(Text["kid menu"]) = Text["kid menu"]
     /\ levenshteinDistance(Text["kids menu"], Text["kid menu"]) = 1
     /\ Similarity["kids menu", "kid menu"] = [num |-> 8, den |-> 9]
     /\ \A q \in FuzzyQueries \ keys :
          LET r == LookupOutcome(cache, q, now)
          IN /\ (\E k \in keys : AtThreshold(Similarity[q, k])) => r.kind = "fuzzy"
             /\ (\A k \in keys : BelowThreshold(Similarity[q, k])) => r = Miss
             /\ (q = "kids menu" /\ keys = {"kid menu"})
                  => (r.kind = "fuzzy" /\ r.key = "kid menu")
     /\ (last.op = "getCachedResults" /\ last.query \notin keys)
          => /\ (\E k \in keys : AtThreshold(Similarity[last.query, k])) => last.result.hit
             /\ (\A k \in keys : BelowThreshold(Similarity[last.query, k]))
                  => last.result = Miss

\* A lookup has hit the only key, whose similarity to the query is exactly
\* the threshold.
C18_Witness ==
  /\ last.op = "getCachedResults"
  /\ last.result.kind = "fuzzy"
  /\ Len(disk.queries) = 1
  /\ AtThreshold(Similarity[last.query, disk.queries[1].key])
  /\ disk.queries[1].hitCount = 1

\* A fuzzy hit on key carrying value.
FuzzyHit(key, value) == [hit |-> TRUE, kind |-> "fuzzy", key |-> key, value |-> value]

\* C19: "Is parking available?" and "parking availability" have one
\* normalized form; on a cache that holds only "parking availability", the
\* lookup of "Is parking available?" is a fuzzy hit on that key and returns
\* the value stored under it.
C19_ParkingScenario ==
  LET cache == loadCache
      stored1 == "parking availability"
      asked == "Is parking available?"
  IN /\ normalizeForFuzzy(Text[asked]) = normalizeForFuzzy(Text[stored1])
     /\ FracGE(Similarity[asked, stored1], fuzzyThreshold)
     /\ Keys(cache.queries) = {stored1}
          => /\ LookupOutcome(cache, asked, now)
                  = FuzzyHit(stored1, EntryOf(cache, stored1).vectorResults)
             /\ (last.op = "getCachedResults" /\ last.query = asked)
                  => last.result = FuzzyHit(stored1, vectorSearch(stored1, 0))

\* "Is parking available?" has been looked up, and served, on a cache that
\* holds only "parking availability".
C19_Witness ==
  /\ last.op = "getCachedResults"
  /\ last.query = "Is parking available?"
  /\ last.result.kind = "fuzzy"
  /\ Keys(disk.queries) = {"parking availability"}
  /\ disk.queries[1].hitCount = 1

\* C20: a lookup whose query is, to the letter, a key that has not expired
\* returns that key's own value as an exact hit and touches that entry
\* only, also when another key has similarity 1 to the query; a fuzzy hit is
\* returned only when the query is not such a key.
C20_ExactBeforeFuzzy ==
  [][LET q == last'.query
         cache == loadCache
     IN (q \in FuzzyQueries /\ getCachedResults(q)) =>
          /\ (q \in Keys(cache.queries) /\ now <= DateOf(EntryOf(cache, q).expiresAt))
               => /\ last'.result = ExactHit(q, EntryOf(cache, q).vectorResults)
                  /\ EntryOf(disk', q).hitCount = EntryOf(cache, q).hitCount + 1
                  /\ \A k \in Keys(cache.queries) \ {q} :
                       EntryOf(disk', k) = EntryOf(cache, k)
          /\ last'.result.kind = "fuzzy"
               => ~(q \in Keys(cache.queries)
                    /\ now <= DateOf(EntryOf(cache, q).expiresAt))]_vars

\* An exact hit has been served while a key of similarity 1 to the query,
\* never hit, sits ahead of the query's own key.
C20_Witness ==
  /\ last.op = "getCachedResults"
  /\ last.result.kind = "exact"
  /\ Len(disk.queries) = 2
  /\ disk.queries[2].key = last.query
  /\ disk.queries[2].hitCount = 1
  /\ disk.queries[1].hitCount = 0
  /\ Similarity[last.query, disk.queries[1].key].num
       = Similarity[last.query, disk.queries[1].key].den

\* C21: getCacheStatus on a file that loads reports a currentSize equal to
\* the number of entries in the store and one record per entry, the records
\* in order of hitCount, highest first, and it leaves the file as it was.
C21_StatusCountsAndOrders ==
  [][(getCacheStatus /\ ~loadCacheThrows) =>
       LET cache == loadCache
           status == last'.status
       IN /\ status.success
          /\ status.metadata.currentSize = Len(cache.queries)
          /\ Len(status.queries) = Len(cache.queries)
          /\ \A k \in Keys(cache.queries) :
               \E i \in 1..Len(status.queries) :
                 /\ status.queries[i].query = k
                 /\ status.queries[i].hitCount = EntryOf(cache, k).hitCount
                 /\ status.queries[i].cachedAt = EntryOf(cache, k).cachedAt
                 /\ status.queries[i].lastAccessed = EntryOf(cache, k).lastAccessed
          /\ \A i, j \in 1..Len(status.queries) :
               i < j => status.queries[i].hitCount >= status.queries[j].hitCount
          /\ disk' = disk
          /\ fstat' = fstat]_vars

\* A status of two entries has been returned, the entry hit once ahead of the
\* entry never hit, which comes first in the file.
C21_Witness ==
  /\ last.op = "getCacheStatus"
  /\ last.status.success
  /\ Len(last.status.queries) = 2
  /\ last.status.metadata.currentSize = 2
  /\ last.status.queries[1].hitCount = 1
  /\ last.status.queries[2].hitCount = 0
  /\ Len(disk.queries) = 2
  /\ last.status.queries[1].query = disk.queries[2].key

\* C22: a lookup with the empty query returns no hit and touches no entry,
\* and a store with the empty query creates no entry.
C22_EmptyQueryRejected ==
  [][/\ getCachedResults("") => (~last'.result.hit /\ disk' = disk)
     /\ cacheResults("", vectorSearch("", now)) => "" \notin Keys(disk'.queries)]_vars

\* C23: no date and time slot ever holds more than maxReservationsPerSlot
\* reservations that are not cancelled.
C23_SlotCapacity ==
  \A s \in Slots : reservations[s] <= maxReservationsPerSlot

\* C24: a reservation made in the voice flow is for a date, time and party
\* size for which an availability check of that call has answered
\* "available".
C24_CheckedBeforeCreated ==
  lastCreate.source = "voice_call" =>
    <<lastCreate.date, lastCreate.time, lastCreate.partySize>>
      \in conversations[lastCreate.callSid].confirmed

\* C25: against the mock cache of the fuzzy-matching test, findFuzzyMatch
\* returns for each test query the key the test expects, and no match where
\* it expects none.
C25_TestExpectations ==
  (arg1 \in TestQueries /\ Keys(disk.queries) = {MockKeys[i] : i \in DOMAIN MockKeys})
    => IF ShouldMatch[arg1] = "" THEN returned = <<>>
       ELSE returned # <<>> /\ returned[1].key = ShouldMatch[arg1]

\* The strings one edit away from s: a character deleted, inserted or
\* substituted.
Edits(s) ==
  {SubSeq(s, 1, i - 1) \o SubSeq(s, i + 1, Len(s)) : i \in 1..Len(s)}
    \cup {SubSeq(s, 1, i) \o <<c>> \o SubSeq(s, i + 1, Len(s)) :
             i \in 0..Len(s), c \in Alphabet}
    \cup {[s EXCEPT ![i] = c] : i \in 1..Len(s), c \in Alphabet}

\* The least number of edits that lead from a string of frontier to b, where
\* seen are the strings fewer than k edits away from the start and frontier
\* those exactly k edits away.
RECURSIVE EditsUntil(_, _, _, _)
EditsUntil(seen, frontier, b, k) ==
  IF b \in frontier THEN k
  ELSE LET reached == seen \cup frontier
       IN EditsUntil(reached, (UNION {Edits(s) : s \in frontier}) \ reached, b, k + 1)

\* The edit distance: the least number of edits that turn a into b.
EditDistance(a, b) == EditsUntil({}, {a}, b, 0)

\* C26: levenshteinDistance(a, b) is the edit distance of a and b, the empty
\* string included; calculateSimilarity is the same both ways round, lies
\* between 0 and 1, is 1 when both normalized strings are empty, and is 1
\* exactly when the normalized strings are equal.
C26_DistanceAndSimilarity ==
  returned # <<>> =>
    /\ returned.distance = EditDistance(arg1, arg2)
    /\ returned.similarity = returned.reversed
    /\ returned.similarity.num >= 0
    /\ returned.similarity.num <= returned.similarity.den
    /\ (normalizeForFuzzy(arg1) = <<>> /\ normalizeForFuzzy(arg2) = <<>>)
         => returned.similarity.num = returned.similarity.den
    /\ returned.similarity.num = returned.similarity.den
         <=> normalizeForFuzzy(arg1) = normalizeForFuzzy(arg2)

\* Measured: a string and the empty string, two edits apart, whose
\* normalized forms are both empty.
C26_Witness ==
  /\ returned # <<>>
  /\ returned.distance = 2
  /\ arg1 = <<"m", "e">>
  /\ arg2 = <<>>
  /\ returned.similarity = [num |-> 1, den |-> 1]

\* C27: whenever a store evicts, each evicted entry's lastAccessed is no
\* later than that of each entry that stays, whatever their hitCount and
\* cachedAt: an entry whose lastAccessed is later than another's is not
\* evicted while that other stays.
C27_EvictionByRecencyOnly ==
  [][LET q == last'.query
         cache == loadCache
     IN (/\ q \in Queries
         /\ cacheResults(q, vectorSearch(q, now))
         /\ last'.evicted # {})
          => LET full == SetQuery(cache.queries, NewEntry(q, vectorSearch(q, now), now))
             IN \A a, b \in 1..Len(full) :
                  DateOf(full[a].lastAccessed) > DateOf(full[b].lastAccessed)
                    => (full[a].key \in last'.evicted => full[b].key \in last'.evicted)]_vars

\* A store has evicted an entry and kept one that was stored at the start,
\* before or together with every other, and was hit since.
C27_Witness ==
  /\ last.op = "cacheResults"
  /\ last.evicted # {}
  /\ now = MaxTime
  /\ \E i \in 1..Len(disk.queries) :
       /\ disk.queries[i].key # last.query
       /\ disk.queries[i].cachedAt = ISOString(0)
       /\ disk.queries[i].hitCount = 1
       /\ DateOf(disk.queries[i].lastAccessed) > 0

\* ------------------------------------------------------------- C28
\* C28: in searchFAQ the vector search runs exactly when the lookup returns
\* no hit. On a hit nothing is searched and nothing is stored: the keys and
\* the results of the cache stay as they were and the cached results are
\* used. On a miss with a failing search the file is left alone. On a miss
\* with a search that succeeds its documents, the empty list too, are stored
\* under the query as it was given, and a lookup of that query at any time up
\* to the TTL later is an exact hit on these documents.
C28_CallerProtocol ==
  [][\A q \in SearchQueries : \A failed \in BOOLEAN : \A documents \in Documents(q, now) :
       searchFAQ(q, failed, documents) =>
         LET pre == LookupOutcome(loadCache, q, now)
         IN /\ lastSearch'.searched <=> ~pre.hit
            /\ pre.hit =>
                 /\ lastSearch'.searchResults = pre.value
                 /\ lastSearch'.storedAs = <<>>
                 /\ last'.op = "getCachedResults"
                 /\ Keys(disk'.queries) = Keys(loadCache.queries)
                 /\ \A k \in Keys(loadCache.queries) :
                      /\ EntryOf(disk', k).vectorResults = EntryOf(loadCache, k).vectorResults
                      /\ EntryOf(disk', k).cachedAt = EntryOf(loadCache, k).cachedAt
            /\ (~pre.hit /\ failed) =>
                 /\ lastSearch'.storedAs = <<>>
                 /\ disk' = disk
                 /\ fstat' = fstat
            /\ (~pre.hit /\ ~failed) =>
                 /\ lastSearch'.storedAs = <<q>>
                 /\ lastSearch'.searchResults = documents
                 /\ \A t \in now..(now + ttlMs) :
                      LookupOutcome(disk', q, t) = ExactHit(q, documents)]_vars

\* A search that found nothing was stored, and the same query is then served
\* from the cache, with the empty list, at the last instant of its TTL.
C28_Witness ==
  /\ lastSearch.hit
  /\ ~lastSearch.searched
  /\ lastSearch.searchResults = EmptyList
  /\ last.op = "getCachedResults"
  /\ last.result = ExactHit(lastSearch.query, EmptyList)
  /\ IndexOf(disk.queries, lastSearch.query) # 0
  /\ now = DateOf(EntryOf(disk, lastSearch.query).cachedAt) + ttlMs
  /\ now > 0

\* ------------------------------------------------------------- C29
\* C29: when lookups and stores overlap between their load and their write,
\* the file on disk and every document a call is about to write hold at most
\* maxQueries entries.
C29_SizeBoundUnderOverlap ==
  /\ Len(disk.queries) <= maxQueries
  /\ \A c \in Calls :
       calls[c].pc = "saveCache" => Len(calls[c].cache.queries) <= maxQueries

\* A store of a new query loaded a full file and is about to write a full
\* document, while a lookup that hit is about to write another.
C29_Witness ==
  \E c, d \in Calls :
    /\ calls[c].pc = "saveCache" /\ calls[c].op = "cacheResults"
    /\ calls[d].pc = "saveCache" /\ calls[d].op = "getCachedResults"
    /\ Len(disk.queries) = maxQueries
    /\ calls[c].query \notin Keys(disk.queries)
    /\ Len(calls[c].cache.queries) = maxQueries
    /\ Keys(calls[d].cache.queries) # Keys(calls[c].cache.queries)

\* ------------------------------------------------------------- C30
\* C30: while the file does not parse, no step other than an invalidateCache
\* whose write succeeds makes it parse again: every lookup returns the miss,
\* every store and every removal of one query is dropped with the file left
\* as it is, and the file stays unparsable. The invalidateCache that writes
\* leaves a file that parses and holds no entry.
C30_OnlyInvalidateRepairs ==
  [][fstat = "corrupt" =>
       /\ fstat' # "corrupt" => invalidateCache
       /\ invalidateCache => (fstat' = "ok" /\ disk' = EmptyCache /\ ~loadCacheThrows')
       /\ \A q \in FaultLookups :
            getCachedResults(q) => (last'.result = Miss /\ fstat' = "corrupt")
       /\ \A q \in FaultQueries :
            cacheResults(q, vectorSearch(q, now))
              => (last'.evicted = {} /\ fstat' = "corrupt" /\ disk' = disk)
       /\ \A q \in FaultLookups :
            removeQuery(q)
              => /\ last'.error = "SyntaxError"
                 /\ last'.evicted = {}
                 /\ UNCHANGED <<fstat, disk>>]_vars

\* The removal of one query has found a file that does not parse and has
\* left it so.
C30_Witness ==
  /\ last.op = "removeQuery"
  /\ last.error = "SyntaxError"
  /\ fstat = "corrupt"

====
